---------------------------- MODULE Spec2Model ----------------------------
(***************************************************************************)
(* Model of scripts/monitor-canary.py (class CanaryMonitor and main) and   *)
(* of the approval decision of scripts/generate-deployment-report.py.      *)
(*                                                                         *)
(* Units.  Python floats are modelled by exact integers and rationals:     *)
(*   error / success rates  : integers in units of 1e-4  (0.005 -> 50)     *)
(*   latencies              : integers in units of 0.1ms (450   -> 4500)   *)
(*   time                   : integer seconds                              *)
(*   test coverage          : integers in units of 1e-3  (0.8   -> 800)    *)
(*   health scores          : integers in units of 0.1   (77.0  -> 770)    *)
(* A mean, a difference or a ratio is a pair <<num, den>> with den > 0     *)
(* (statistics.mean is computed exactly from the samples by the library).  *)
(* String values keep the Python spelling ("rollback", "continue").        *)
(*                                                                         *)
(* Time.  The clock advances in time.sleep only; a fetch and an analysis   *)
(* are taken at the instant of their tick.                                 *)
(***************************************************************************)
EXTENDS Integers, Sequences, FiniteSets, TLC

VARIABLES
    \* ---- CanaryMonitor fields (src lines 26-39)
    duration, error_threshold, latency_threshold, success_threshold,
    canary_service_url, canary_metrics, stable_metrics, decision_history,
    \* ---- locals of monitor_canary / main
    end_time, checks_completed, pc, last_analysis, returned, exit_code, report,
    \* ---- environment: wall clock and the health endpoints
    now, url_up, flips,
    \* ---- observation: calls issued so far, how the run ended, and whether
    \*      a KeyboardInterrupt has been delivered to the process
    ticks, fetches, analyses, ended_by, interrupted,
    \* ---- generate-deployment-report.py: arguments of main, the two parts
    \*      of the report main reads, main's position and exit status
    quality_score, security_score, test_coverage, deployment_health,
    quality_gates, gpc, gen_exit

cfgVars   == <<duration, error_threshold, latency_threshold, success_threshold>>
storeVars == <<canary_metrics, stable_metrics>>
envVars   == <<now, url_up, flips>>
obsVars   == <<ticks, fetches, analyses, ended_by, interrupted>>
genVars   == <<quality_score, security_score, test_coverage, deployment_health,
               quality_gates, gpc, gen_exit>>
vars == <<duration, error_threshold, latency_threshold, success_threshold,
          canary_service_url, canary_metrics, stable_metrics, decision_history,
          end_time, checks_completed, pc, last_analysis, returned, exit_code,
          report, now, url_up, flips, ticks, fetches, analyses, ended_by,
          interrupted, quality_score, security_score, test_coverage,
          deployment_health, quality_gates, gpc, gen_exit>>

--------------------------------------------------------------------------
(* Program constants *)

MAIN_URL == "http://localhost:5000"
TEST_URL == "http://localhost:5001"
NONE_URL == "None"

One == 10000
EPSILON == 10
RATIO_ALARM == 2
LATENCY_DELTA_ALARM == 1000
WINDOW == 300
CHECK_INTERVAL == 30
ANALYZE_EVERY == 5
SIM_CANARY_ERROR == 50
SIM_OTHER_ERROR == 20
SIM_CANARY_P95 == 4500
SIM_OTHER_P95 == 4000
SIM_REQUEST_RATE == 100
\* generate-deployment-report.py
WEIGHT_QUALITY == 3
WEIGHT_SECURITY == 4
WEIGHT_COVERAGE == 3
COVERAGE_CAP == 1000
QUALITY_GATE == 70
SECURITY_GATE == 80
COVERAGE_GATE == 800
APPROVAL_SCORE == 700
DEFAULT_ERROR_THRESHOLD == 100
DEFAULT_LATENCY_THRESHOLD == 5000
DEFAULT_SUCCESS_THRESHOLD == 9900

(* Bounds of the model *)
MaxFlips == 1
MaxWindow == 2

--------------------------------------------------------------------------
(* Exact arithmetic on pairs <<num, den>> *)

RECURSIVE SeqSum(_)
SeqSum(s) == IF s = << >> THEN 0 ELSE Head(s) + SeqSum(Tail(s))

\* statistics.mean of a non-empty list
Mean(xs) == <<SeqSum(xs), Len(xs)>>

RatOfInt(k) == <<k, 1>>
RatSub(a, b) == <<a[1] * b[2] - b[1] * a[2], a[2] * b[2]>>
RatDiv(a, b) == <<a[1] * b[2], a[2] * b[1]>>
RatLess(a, b) == a[1] * b[2] < b[1] * a[2]
RatMax(a, b) == IF RatLess(a, b) THEN b ELSE a
\* a > k for an integer k (den > 0)
RatGtInt(a, k) == a[1] > k * a[2]

RatGeInt_strict(a, k) == a[1] > k * a[2]

\* a >= k
RatGeInt(a, k) == a[1] >= k * a[2]

\* f"{x:.Nf}": the value n/d (n >= 0) printed at the unit's resolution.
\* The float is rounded to the nearest printable value; when n/d lies
\* exactly half-way between two of them the digit printed depends on the
\* binary rounding error of the float, so both neighbours are kept.
Shown(a) ==
    LET q == a[1] \div a[2]
        r == a[1] % a[2]
    IN  IF 2 * r < a[2] THEN {q}
        ELSE IF 2 * r > a[2] THEN {q + 1}
        ELSE {q, q + 1}

--------------------------------------------------------------------------
(* analyze_canary_performance (src lines 145-211) *)

Column(metrics, f) == [i \in 1..Len(metrics) |-> metrics[i][f]]

\* line 147: "not self.canary_metrics or not self.stable_metrics"
NoMetrics(cm, sm) == cm = << >> \/ sm = << >>

\* lines 151-154: samples of the last 5 minutes
InWindow(m, t) == m.timestamp > t - WINDOW
Recent(metrics, t) == SelectSeq(metrics, LAMBDA m : InWindow(m, t))

\* lines 160-170
Averages(recent) ==
    [error_rate   |-> Mean(Column(recent, "error_rate")),
     p95_latency  |-> Mean(Column(recent, "p95_latency")),
     request_rate |-> Mean(Column(recent, "request_rate"))]

RatioDenominator_smallEpsilon(stable_error) == RatMax(stable_error, RatOfInt(1))

\* line 182: max(stable_avg['error_rate'], 0.001)
RatioDenominator(stable_error) == RatMax(stable_error, RatOfInt(EPSILON))

\* lines 179-183
Comparison(canary_avg, stable_avg) ==
    [error_rate_diff  |-> RatSub(canary_avg.error_rate, stable_avg.error_rate),
     latency_diff     |-> RatSub(canary_avg.p95_latency, stable_avg.p95_latency),
     error_rate_ratio |-> RatDiv(canary_avg.error_rate,
                                 RatioDenominator(stable_avg.error_rate))]

\* lines 189, 193, 197, 200: the four rollback conditions
CondErrorRate(canary_avg, et) == RatGtInt(canary_avg.error_rate, et)
CondLatency(canary_avg, lt) == RatGtInt(canary_avg.p95_latency, lt)
CondRatio(comparison) == RatGtInt(comparison.error_rate_ratio, RATIO_ALARM)
CondLatencyDiff(comparison) == RatGtInt(comparison.latency_diff, LATENCY_DELTA_ALARM)

\* One entry of the "; "-joined reason string: which message, and the
\* number it prints (the set Shown gives; {0} for a message without one).
Reason(k, v) == [kind |-> k, value |-> v]

\* lines 189-190, 193-194, 197-198, 200-201: what each check appends.  The
\* ratio is printed with one decimal (tenths), the others at their unit.
ErrorRateReason(canary_avg, et) ==
    IF CondErrorRate(canary_avg, et)
    THEN << Reason("error_rate", Shown(canary_avg.error_rate)) >> ELSE << >>
LatencyReason(canary_avg, lt) ==
    IF CondLatency(canary_avg, lt)
    THEN << Reason("p95_latency", Shown(canary_avg.p95_latency)) >> ELSE << >>
RatioReason(comparison) ==
    IF CondRatio(comparison)
    THEN << Reason("error_rate_ratio",
                   Shown(<<10 * comparison.error_rate_ratio[1],
                           comparison.error_rate_ratio[2]>>)) >> ELSE << >>
LatencyDiffReason(comparison) ==
    IF CondLatencyDiff(comparison)
    THEN << Reason("latency_diff", Shown(comparison.latency_diff)) >> ELSE << >>

DecisionReasons_latencyFirst(canary_avg, comparison, et, lt) ==
       LatencyReason(canary_avg, lt) \o ErrorRateReason(canary_avg, et)
    \o RatioReason(comparison) \o LatencyDiffReason(comparison)

\* lines 186-201: decision_reasons, appended in program order
DecisionReasons(canary_avg, comparison, et, lt) ==
       ErrorRateReason(canary_avg, et) \o LatencyReason(canary_avg, lt)
    \o RatioReason(comparison) \o LatencyDiffReason(comparison)

SuccessRate_raw(canary_avg) == canary_avg.error_rate

\* line 207
SuccessRate(canary_avg) ==
    <<One * canary_avg.error_rate[2] - canary_avg.error_rate[1],
      canary_avg.error_rate[2]>>

\* success rate is printed with 3 decimals
ShownSuccess(sr) == Shown(<<sr[1], 10 * sr[2]>>)

EmptyAnalysis == [empty |-> TRUE]

Result(sc, rs, an) == [should_continue |-> sc, reason |-> rs, analysis |-> an]

InsufficientResult_continue ==
    Result(TRUE, << Reason("insufficient", {0}) >>, EmptyAnalysis)

\* line 148 and line 157: the two returns without data
InsufficientResult == Result(FALSE, << Reason("insufficient", {0}) >>, EmptyAnalysis)
NoRecentResult == Result(FALSE, << Reason("no_recent", {0}) >>, EmptyAnalysis)

MakeDecision_successOverrides(reasons, canary_avg, st, analysis) ==
    IF RatGeInt(SuccessRate(canary_avg), st)
    THEN Result(TRUE,
                << Reason("all_within", ShownSuccess(SuccessRate(canary_avg))) >>,
                analysis)
    ELSE Result(FALSE, reasons, analysis)

\* lines 204-211
MakeDecision(reasons, canary_avg, st, analysis) ==
    IF reasons # << >>
    THEN Result(FALSE, reasons, analysis)
    ELSE LET success_rate == SuccessRate(canary_avg)
         IN  IF RatGeInt(success_rate, st)
             THEN Result(TRUE,
                         << Reason("all_within", ShownSuccess(success_rate)) >>,
                         analysis)
             ELSE Result(FALSE,
                         << Reason("success_below", ShownSuccess(success_rate)) >>,
                         analysis)

analyze_canary_performance_stamped(cm, sm, t, et, lt, st) ==
    IF NoMetrics(cm, sm) THEN InsufficientResult
    ELSE LET recent_canary == Recent(cm, t)
             recent_stable == Recent(sm, t)
         IN  IF NoMetrics(recent_canary, recent_stable) THEN NoRecentResult
             ELSE LET canary_avg == Averages(recent_canary)
                      stable_avg == Averages(recent_stable)
                      comparison == Comparison(canary_avg, stable_avg)
                      analysis == [empty          |-> FALSE,
                                   produced_at    |-> t,
                                   canary_metrics |-> canary_avg,
                                   stable_metrics |-> stable_avg,
                                   comparison     |-> comparison]
                  IN  MakeDecision(
                          DecisionReasons(canary_avg, comparison, et, lt),
                          canary_avg, st, analysis)

\* analyze_canary_performance (lines 145-211); t is the datetime.now() of
\* line 152
analyze_canary_performance(cm, sm, t, et, lt, st) ==
    IF NoMetrics(cm, sm) THEN InsufficientResult
    ELSE LET recent_canary == Recent(cm, t)
             recent_stable == Recent(sm, t)
         IN  IF NoMetrics(recent_canary, recent_stable) THEN NoRecentResult
             ELSE LET canary_avg == Averages(recent_canary)
                      stable_avg == Averages(recent_stable)
                      comparison == Comparison(canary_avg, stable_avg)
                      analysis == [empty          |-> FALSE,
                                   canary_metrics |-> canary_avg,
                                   stable_metrics |-> stable_avg,
                                   comparison     |-> comparison]
                  IN  MakeDecision(
                          DecisionReasons(canary_avg, comparison, et, lt),
                          canary_avg, st, analysis)

\* the call as the monitor makes it, on its own fields at the current time
Analyze == analyze_canary_performance(canary_metrics, stable_metrics, now,
                                      error_threshold, latency_threshold,
                                      success_threshold)

--------------------------------------------------------------------------
(* The monitor: discovery, sampling loop, final analysis, process exit *)

URLS == {MAIN_URL, TEST_URL}

\* command-line inputs (main, lines 318-334); each threshold record is
\* <<error_threshold, latency_threshold, success_threshold>>.  argparse
\* accepts every int / float and __init__ (lines 26-29) stores what it is
\* given, so a duration of 0 and the records of UncheckedThresholds are
\* inputs of a run like any other.
Durations == {0, 60, 300, 600}
DefaultThresholds == <<DEFAULT_ERROR_THRESHOLD, DEFAULT_LATENCY_THRESHOLD,
                       DEFAULT_SUCCESS_THRESHOLD>>
UncheckedThresholds == {<<12000, 5000, 9900>>, <<100, 0, 10100>>}
ThresholdConfigs == {DefaultThresholds, <<30, 5000, 9900>>, <<100, 5000, 9990>>}
                        \cup UncheckedThresholds

NoResult == Result(FALSE, << >>, EmptyAnalysis)
NoReport == [written |-> FALSE]

\* the report generator is a separate program: not started
NoHealth == [computed |-> FALSE]
NoGates == [evaluated |-> FALSE]
GeneratorIdle ==
    /\ quality_score = 0
    /\ security_score = 0
    /\ test_coverage = 0
    /\ deployment_health = NoHealth
    /\ quality_gates = NoGates
    /\ gpc = "idle"
    /\ gen_exit = -1

Init ==
    /\ duration \in Durations
    /\ \E th \in ThresholdConfigs :
          /\ error_threshold = th[1]
          /\ latency_threshold = th[2]
          /\ success_threshold = th[3]
    /\ canary_service_url = NONE_URL
    /\ canary_metrics = << >>
    /\ stable_metrics = << >>
    /\ decision_history = << >>
    /\ end_time = 0
    /\ checks_completed = 0
    /\ pc = "start"
    /\ last_analysis = NoResult
    /\ returned = "none"
    /\ exit_code = -1
    /\ report = NoReport
    /\ now = 0
    /\ url_up \in [URLS -> BOOLEAN]
    /\ flips = 0
    /\ ticks = 0
    /\ fetches = 0
    /\ analyses = 0
    /\ ended_by = "running"
    /\ interrupted = FALSE
    /\ GeneratorIdle

\* discover_canary_endpoint (lines 45-61): the value canary_service_url has
\* after the probe of TEST_URL answered 200, answered another status, or
\* raised (the bare except catches every exception, a KeyboardInterrupt
\* included: lines 56-59 run for it as for a connection error and the
\* interrupt is lost).
DiscoveredUrl(outcome, old) ==
    CASE outcome = "status_200"                         -> TEST_URL
      [] outcome \in {"exception", "keyboard_interrupt"} -> MAIN_URL
      [] OTHER                                          -> old

\* monitor_canary lines 215-224
Discover ==
    /\ pc = "start"
    /\ \E outcome \in {"status_200", "status_other", "exception",
                        "keyboard_interrupt"} :
          /\ canary_service_url' = DiscoveredUrl(outcome, canary_service_url)
          /\ interrupted' = (outcome = "keyboard_interrupt")
    /\ end_time' = now + duration
    /\ checks_completed' = 0
    /\ pc' = "loop"
    /\ UNCHANGED <<genVars, cfgVars, storeVars, decision_history, last_analysis,
                   returned, exit_code, report, envVars, ticks, fetches,
                   analyses, ended_by>>

LoopCondition_inclusive == now <= end_time

\* line 226: while datetime.now() < end_time
LoopCondition == now < end_time

LoopTest ==
    /\ pc = "loop"
    /\ IF LoopCondition
       THEN /\ pc' = "fetch_canary"
            /\ ticks' = ticks + 1
       ELSE /\ pc' = "final"
            /\ ticks' = ticks
    /\ UNCHANGED <<genVars, cfgVars, canary_service_url, storeVars, decision_history,
                   end_time, checks_completed, last_analysis, returned,
                   exit_code, report, envVars, fetches, analyses, ended_by,
                   interrupted>>

\* the GET of line 116 answers 200/206 with a JSON body; a request to the
\* URL "None/api/v1/health/enterprise" raises inside the try
Responds(service_url) == service_url \in URLS /\ url_up[service_url]

\* get_direct_metrics (lines 113-143): << m >> for the dict m, << >> for {}
get_direct_metrics(service_url) ==
    IF Responds(service_url)
    THEN << [error_rate   |-> IF service_url = canary_service_url
                              THEN SIM_CANARY_ERROR ELSE SIM_OTHER_ERROR,
             p95_latency  |-> IF service_url = canary_service_url
                              THEN SIM_CANARY_P95 ELSE SIM_OTHER_P95,
             request_rate |-> SIM_REQUEST_RATE,
             timestamp    |-> now] >>
    ELSE << >>

Store_prepend(store, got) == IF got # << >> THEN << got[1] >> \o store ELSE store

\* lines 233-234 and 238, 242: "if metrics: append"
Store(store, got) == IF got # << >> THEN Append(store, got[1]) ELSE store

\* lines 240-241
Adjust(got) ==
    IF got = << >> THEN got
    ELSE << [got[1] EXCEPT !.error_rate = (@ * 8) \div 10,
                           !.p95_latency = (@ * 95) \div 100] >>

FetchCanary ==
    /\ pc = "fetch_canary"
    /\ canary_metrics' = Store(canary_metrics, get_direct_metrics(canary_service_url))
    /\ fetches' = fetches + 1
    /\ pc' = "fetch_stable"
    /\ UNCHANGED <<genVars, cfgVars, canary_service_url, stable_metrics, decision_history,
                   end_time, checks_completed, last_analysis, returned,
                   exit_code, report, envVars, ticks, analyses, ended_by,
                   interrupted>>

FetchStable ==
    /\ pc = "fetch_stable"
    /\ stable_metrics' = Store(stable_metrics, Adjust(get_direct_metrics(MAIN_URL)))
    /\ fetches' = fetches + 1
    /\ pc' = "check"
    /\ UNCHANGED <<genVars, cfgVars, canary_service_url, canary_metrics, decision_history,
                   end_time, checks_completed, last_analysis, returned,
                   exit_code, report, envVars, ticks, analyses, ended_by,
                   interrupted>>

AnalysisDue_noSkip(cc) == cc % ANALYZE_EVERY = 0

\* line 245
AnalysisDue(cc) == cc > 0 /\ cc % ANALYZE_EVERY = 0

Decision_alwaysRollback(should_continue) == "rollback"

\* line 250
Decision(should_continue) == IF should_continue THEN "continue" ELSE "rollback"

\* lines 248-253
HistoryEntry(res) ==
    [timestamp |-> now, decision |-> Decision(res.should_continue),
     reason |-> res.reason, metrics |-> res.analysis]

StopsRun_never(res) == FALSE

\* lines 258-260: an interim verdict that is not "continue" returns False
StopsRun(res) == ~res.should_continue

ExitCode_zero(success) == 0

\* main, lines 336-343
ExitCode(success) == IF success THEN 0 ELSE 1

BoolStr(b) == IF b THEN "True" ELSE "False"

\* lines 245-267, the tick of an analysis
InterimAnalysis ==
    /\ pc = "check"
    /\ AnalysisDue(checks_completed)
    /\ LET res == Analyze
       IN  /\ last_analysis' = res
           /\ decision_history' = Append(decision_history, HistoryEntry(res))
           /\ analyses' = analyses + 1
           /\ IF StopsRun(res)
              THEN /\ returned' = "False"
                   /\ exit_code' = ExitCode(FALSE)
                   /\ pc' = "done"
                   /\ ended_by' = "rollback"
                   /\ UNCHANGED checks_completed
              ELSE /\ checks_completed' = checks_completed + 1
                   /\ pc' = "sleep"
                   /\ UNCHANGED <<returned, exit_code, ended_by>>
    /\ UNCHANGED <<genVars, cfgVars, canary_service_url, storeVars, end_time, report,
                   envVars, ticks, fetches, interrupted>>

\* lines 245, 267: a tick without analysis
NoAnalysis ==
    /\ pc = "check"
    /\ ~AnalysisDue(checks_completed)
    /\ checks_completed' = checks_completed + 1
    /\ pc' = "sleep"
    /\ UNCHANGED <<genVars, cfgVars, canary_service_url, storeVars, decision_history,
                   end_time, last_analysis, returned, exit_code, report,
                   envVars, obsVars>>

\* line 270: time.sleep(check_interval)
Sleep ==
    /\ pc = "sleep"
    /\ now' = now + CHECK_INTERVAL
    /\ pc' = "loop"
    /\ UNCHANGED <<genVars, cfgVars, canary_service_url, storeVars, decision_history,
                   end_time, checks_completed, last_analysis, returned,
                   exit_code, report, url_up, flips, obsVars>>

\* _generate_report (lines 291-314)
GenerateReport(final_analysis) ==
    [written             |-> TRUE,
     monitoring_duration |-> duration,
     total_checks        |-> Len(canary_metrics),
     final_analysis      |-> final_analysis,
     decision_history    |-> decision_history,
     configuration       |-> [error_threshold   |-> error_threshold,
                              latency_threshold |-> latency_threshold,
                              success_threshold |-> success_threshold]]

FinalVerdict_promote(res) == TRUE

\* lines 280, 289: monitor_canary returns the final analysis' verdict
FinalVerdict(res) == res.should_continue

\* lines 279-289, then main's exit
FinalAnalysis ==
    /\ pc = "final"
    /\ LET res == Analyze
       IN  /\ last_analysis' = res
           /\ report' = GenerateReport(res.analysis)
           /\ returned' = BoolStr(FinalVerdict(res))
           /\ exit_code' = ExitCode(FinalVerdict(res))
    /\ analyses' = analyses + 1
    /\ pc' = "done"
    /\ ended_by' = "expiry"
    /\ UNCHANGED <<genVars, cfgVars, canary_service_url, storeVars, decision_history,
                   end_time, checks_completed, envVars, ticks, fetches,
                   interrupted>>

\* the program points inside the try of lines 227-270
InTry == {"fetch_canary", "fetch_stable", "check", "sleep"}

\* KeyboardInterrupt: caught inside the try (lines 272-274, return False);
\* before discovery's try (lines 215-218), at the loop test or in the final
\* analysis it is not caught and the interpreter ends the process with
\* status 130.  The interrupt delivered inside discovery's try is in Discover.
Interrupt ==
    /\ pc \in InTry \cup {"start", "loop", "final"}
    /\ interrupted' = TRUE
    /\ IF pc \in InTry
       THEN /\ returned' = "False"
            /\ exit_code' = ExitCode(FALSE)
            /\ ended_by' = "interrupt"
       ELSE /\ returned' = "raised"
            /\ exit_code' = 130
            /\ ended_by' = "uncaught_interrupt"
    /\ pc' = "done"
    /\ UNCHANGED <<genVars, cfgVars, canary_service_url, storeVars, decision_history,
                   end_time, checks_completed, last_analysis, report,
                   envVars, ticks, fetches, analyses>>

\* environment: a health endpoint goes down or comes back.  The monitor
\* reads the endpoints only in its fetches, so a change is placed right
\* before a fetch.
Flip ==
    /\ pc \in {"fetch_canary", "fetch_stable"}
    /\ flips < MaxFlips
    /\ \E u \in URLS : url_up' = [url_up EXCEPT ![u] = ~@]
    /\ flips' = flips + 1
    /\ UNCHANGED <<genVars, cfgVars, canary_service_url, storeVars, decision_history,
                   end_time, checks_completed, pc, last_analysis, returned,
                   exit_code, report, now, obsVars>>

Next ==
    \/ Discover
    \/ LoopTest
    \/ FetchCanary
    \/ FetchStable
    \/ InterimAnalysis
    \/ NoAnalysis
    \/ Sleep
    \/ FinalAnalysis
    \/ Interrupt
    \/ Flip

Spec == Init /\ [][Next]_vars

--------------------------------------------------------------------------
(* The analyzer on its own: analyze_canary_performance applied once to    *)
(* stores drawn from small pools, under several threshold settings.       *)

\* <<error_rate, p95_latency>> of the samples a store may hold
CanaryPool == {<<50, 4500>>, <<20, 5200>>, <<10, 4500>>}
StablePool == {<<20, 4000>>, <<100, 4500>>, <<0, 3400>>, <<16, 3800>>}
AnalyzerThresholds == {DefaultThresholds, <<100, 5000, 9990>>, <<30, 4600, 9900>>,
                       <<50, 5000, 9950>>}

\* the time of the call, and the timestamps a stored sample may carry:
\* older than the window, exactly WINDOW old, and two recent ticks
AnalyzerNow == 2 * WINDOW
StampPool == {AnalyzerNow - WINDOW - CHECK_INTERVAL, AnalyzerNow - WINDOW,
              AnalyzerNow - 2 * CHECK_INTERVAL, AnalyzerNow - CHECK_INTERVAL}

\* stores as monitor_canary builds them: at most one sample per tick,
\* appended in time order
Stores(pool) ==
    UNION { { [i \in 1..n |-> [error_rate   |-> v[i][1],
                               p95_latency  |-> v[i][2],
                               request_rate |-> SIM_REQUEST_RATE,
                               timestamp    |-> ts[i]]] :
                v \in [1..n -> pool],
                ts \in {f \in [1..n -> StampPool] :
                          \A i \in 1..(n - 1) : f[i] < f[i + 1]} } :
            n \in 0..MaxWindow }

InitAnalyzer ==
    /\ duration = 600
    /\ \E th \in AnalyzerThresholds :
          /\ error_threshold = th[1]
          /\ latency_threshold = th[2]
          /\ success_threshold = th[3]
    /\ canary_service_url = TEST_URL
    /\ canary_metrics \in Stores(CanaryPool)
    /\ stable_metrics \in Stores(StablePool)
    /\ decision_history = << >>
    /\ end_time = AnalyzerNow
    /\ checks_completed = 0
    /\ pc = "analyzer_call"
    /\ last_analysis = NoResult
    /\ returned = "none"
    /\ exit_code = -1
    /\ report = NoReport
    /\ now = AnalyzerNow
    /\ url_up = [u \in URLS |-> TRUE]
    /\ flips = 0
    /\ ticks = 0
    /\ fetches = 0
    /\ analyses = 0
    /\ ended_by = "running"
    /\ interrupted = FALSE
    /\ GeneratorIdle

AnalyzerCall_pruning ==
    /\ pc = "analyzer_call"
    /\ last_analysis' = Analyze
    /\ analyses' = analyses + 1
    /\ pc' = "analyzer_returned"
    /\ canary_metrics' = Recent(canary_metrics, now)
    /\ stable_metrics' = Recent(stable_metrics, now)
    /\ UNCHANGED <<genVars, cfgVars, canary_service_url, decision_history,
                   end_time, checks_completed, returned, exit_code, report,
                   envVars, ticks, fetches, ended_by, interrupted>>

AnalyzerCall ==
    /\ pc = "analyzer_call"
    /\ last_analysis' = Analyze
    /\ analyses' = analyses + 1
    /\ pc' = "analyzer_returned"
    /\ UNCHANGED <<genVars, cfgVars, canary_service_url, storeVars, decision_history,
                   end_time, checks_completed, returned, exit_code, report,
                   envVars, ticks, fetches, ended_by, interrupted>>

NextAnalyzer == AnalyzerCall

SpecAnalyzer == InitAnalyzer /\ [][NextAnalyzer]_vars

--------------------------------------------------------------------------
(* Properties of the monitoring run (checked under Spec) *)

\* the store as it was at time t, and whether a cohort had no sample in
\* the trailing window of an analysis made at t
StoreAt(metrics, t) == SelectSeq(metrics, LAMBDA m : m.timestamp <= t)
WindowEmptyAt(t) ==
    \/ Recent(StoreAt(canary_metrics, t), t) = << >>
    \/ Recent(StoreAt(stable_metrics, t), t) = << >>

Interrupted == ended_by \in {"interrupt", "uncaught_interrupt"}

\* C1: an interim analysis that yields ROLLBACK ends the run in the same
\* tick with a non-promoting result: the rollback entry is the last of the
\* history, the run is over with return value False and exit status 1, and
\* nothing was issued after it - no sleep (the clock is that of the
\* analysis), no further tick, no further fetch, no further analysis.
C1_RollbackEndsRun ==
    \A i \in 1..Len(decision_history) :
        decision_history[i].decision = "rollback" =>
            /\ i = Len(decision_history)
            /\ pc = "done"
            /\ ended_by = "rollback"
            /\ returned = "False"
            /\ exit_code = 1
            /\ now = decision_history[i].timestamp
            /\ ticks = checks_completed + 1
            /\ fetches = 2 * ticks
            /\ analyses = Len(decision_history)

\* a rollback on real data at tick 6 of a 20-tick run
C1_Witness ==
    /\ pc = "done"
    /\ ended_by = "rollback"
    /\ duration = 600
    /\ ticks = 6
    /\ ~last_analysis.analysis.empty
    /\ decision_history[Len(decision_history)].decision = "rollback"

\* C2: an analysis made while a cohort has no sample in the trailing window
\* is INCONCLUSIVE, a verdict distinct from ROLLBACK: it is never recorded
\* in the history as a rollback (and so never stops the run as one).
C2_InconclusiveIsNotRollback ==
    \A i \in 1..Len(decision_history) :
        WindowEmptyAt(decision_history[i].timestamp) =>
            decision_history[i].decision # "rollback"

\* C3: fetch failures are non-fatal: a run that was not interrupted and
\* ended before its duration expired was ended by a verdict on samples of
\* both cohorts, never by the absence of samples that failed fetches leave.
C3_FetchFailuresNeverAbort ==
    (pc = "done" /\ ~Interrupted /\ now < end_time) =>
        /\ ~last_analysis.analysis.empty
        /\ Recent(canary_metrics, now) # << >>
        /\ Recent(stable_metrics, now) # << >>

\* C4: with duration=300 (check interval 30), a run whose every fetch of
\* both cohorts failed (nothing stored) and that was not interrupted kept
\* ticking until the duration expired, ended by the final analysis, and did
\* not promote.
C4_AllFetchesFailScenario ==
    (/\ duration = 300
     /\ pc = "done"
     /\ ~Interrupted
     /\ canary_metrics = << >>
     /\ stable_metrics = << >>) =>
        /\ ended_by = "expiry"
        /\ now >= end_time
        /\ returned = "False"
        /\ exit_code # 0

\* C5: a run ends in PROMOTE (return value True, exit status 0) only by a
\* final analysis at expiry that was made on non-empty recent windows of
\* both cohorts and returned CONTINUE.
C5_PromoteOnlyOnData ==
    (returned = "True" \/ exit_code = 0) =>
        /\ ended_by = "expiry"
        /\ last_analysis.should_continue
        /\ ~last_analysis.analysis.empty
        /\ Recent(canary_metrics, now) # << >>
        /\ Recent(stable_metrics, now) # << >>

\* a promoted run in which some canary fetch had failed
C5_Witness ==
    /\ returned = "True"
    /\ exit_code = 0
    /\ Len(canary_metrics) < ticks

\* C6: a run that ended by duration expiry made exactly one analysis after
\* its last tick (one more than the interim analyses in the history), on
\* the stores as they are at expiry, and its decision is that analysis'
\* verdict alone: PROMOTE (True, exit 0) iff it returned CONTINUE,
\* ROLLBACK (False, exit 1) otherwise.
C6_FinalAnalysisDecides ==
    ended_by = "expiry" =>
        /\ pc = "done"
        /\ now >= end_time
        /\ analyses = Len(decision_history) + 1
        /\ last_analysis = Analyze
        /\ returned = (IF last_analysis.should_continue THEN "True" ELSE "False")
        /\ exit_code = (IF last_analysis.should_continue THEN 0 ELSE 1)

\* expiry after interim analyses that all said continue, ending in ROLLBACK
C6_Witness ==
    /\ ended_by = "expiry"
    /\ Len(decision_history) >= 2
    /\ \A i \in 1..Len(decision_history) : decision_history[i].decision = "continue"
    /\ returned = "False"

--------------------------------------------------------------------------
(* Properties of the analyzer (checked under SpecAnalyzer).  They restate *)
(* the thresholds on the raw samples of the two windows: g.c and g.s are  *)
(* the number of samples and the sums of error rate and p95 latency of    *)
(* the canary and of the stable window.                                   *)

Sums(win) == [n   |-> Len(win),
              err |-> SeqSum(Column(win, "error_rate")),
              lat |-> SeqSum(Column(win, "p95_latency"))]
Windows == [c |-> Sums(Recent(canary_metrics, now)),
            s |-> Sums(Recent(stable_metrics, now))]

AnalyzerRan == pc = "analyzer_returned"
HasData(g) == g.c.n > 0 /\ g.s.n > 0

IntMax(a, b) == IF a >= b THEN a ELSE b
ViolA(g) == g.c.err > error_threshold * g.c.n
ViolB(g) == g.c.lat > latency_threshold * g.c.n
ViolC(g) == g.c.err * g.s.n > RATIO_ALARM * g.c.n * IntMax(g.s.err, EPSILON * g.s.n)
ViolD(g) == g.c.lat * g.s.n - g.s.lat * g.c.n > LATENCY_DELTA_ALARM * g.c.n * g.s.n
AnyViol(g) == ViolA(g) \/ ViolB(g) \/ ViolC(g) \/ ViolD(g)
SuccessOk(g) == One * g.c.n - g.c.err >= success_threshold * g.c.n

Kinds(reason) == [i \in 1..Len(reason) |-> reason[i].kind]

\* C7: on non-empty windows, each of (a) mean canary error rate >
\* error_rate_max, (b) mean canary p95 > latency_ms_max, (c) error-rate
\* ratio > 2.0, (d) latency difference > 100 ms forces ROLLBACK, whatever
\* the success rate; and when (a) holds a reason mentions the error rate.
C7_AnyViolationRollsBack ==
    AnalyzerRan =>
        LET g == Windows
        IN  (HasData(g) /\ AnyViol(g)) =>
                /\ ~last_analysis.should_continue
                /\ ViolA(g) => \E i \in 1..Len(last_analysis.reason) :
                                   last_analysis.reason[i].kind = "error_rate"

\* (a) alone, with a success rate that passes on its own
C7_Witness ==
    /\ AnalyzerRan
    /\ LET g == Windows
       IN  /\ HasData(g)
           /\ ViolA(g) /\ ~ViolB(g) /\ ~ViolC(g) /\ ~ViolD(g)
           /\ SuccessOk(g)
    /\ ~last_analysis.should_continue

ExpectedKinds(g) ==
       (IF ViolA(g) THEN << "error_rate" >> ELSE << >>)
    \o (IF ViolB(g) THEN << "p95_latency" >> ELSE << >>)
    \o (IF ViolC(g) THEN << "error_rate_ratio" >> ELSE << >>)
    \o (IF ViolD(g) THEN << "latency_diff" >> ELSE << >>)

\* Scenario A: canary means 0.005 / 450 ms, stable means 0.002 / 400 ms,
\* default thresholds
ScenarioA(g) ==
    /\ HasData(g)
    /\ g.c.err = 50 * g.c.n /\ g.c.lat = 4500 * g.c.n
    /\ g.s.err = 20 * g.s.n /\ g.s.lat = 4000 * g.s.n
    /\ <<error_threshold, latency_threshold, success_threshold>> = DefaultThresholds

\* C8: the reasons of a ROLLBACK caused by (a)-(d) hold one entry per
\* violated condition and none for a satisfied one, in the order a, b, c,
\* d; in Scenario A the verdict is ROLLBACK with the single reason that
\* cites the ratio 2.5.
C8_ReasonsPerViolation ==
    AnalyzerRan =>
        LET g == Windows
        IN  /\ (HasData(g) /\ AnyViol(g)) =>
                   Kinds(last_analysis.reason) = ExpectedKinds(g)
            /\ ScenarioA(g) =>
                   /\ ~last_analysis.should_continue
                   /\ last_analysis.reason =
                          << [kind |-> "error_rate_ratio", value |-> {25}] >>

\* Scenario A analysed
C8_Witness ==
    /\ AnalyzerRan
    /\ ScenarioA(Windows)
    /\ Len(last_analysis.reason) = 1

\* C9: on non-empty windows with none of (a)-(d) violated the verdict is
\* CONTINUE iff 1 - mean canary error rate >= success_rate_min, with one
\* reason that records the success rate (to 3 decimals); otherwise it is
\* ROLLBACK with one reason that cites the success-rate shortfall.
C9_SuccessRateDecides ==
    AnalyzerRan =>
        LET g == Windows
        IN  (HasData(g) /\ ~AnyViol(g)) =>
                /\ last_analysis.should_continue <=> SuccessOk(g)
                /\ Len(last_analysis.reason) = 1
                /\ last_analysis.reason[1].kind =
                      (IF SuccessOk(g) THEN "all_within" ELSE "success_below")
                /\ \A v \in last_analysis.reason[1].value :
                       LET shown == 10 * v * g.c.n
                           exact == One * g.c.n - g.c.err
                       IN  /\ 2 * (shown - exact) <= 10 * g.c.n
                           /\ 2 * (exact - shown) <= 10 * g.c.n

\* the shortfall: nothing violated, success rate below its minimum
C9_Witness ==
    /\ AnalyzerRan
    /\ LET g == Windows
       IN  HasData(g) /\ ~AnyViol(g) /\ ~SuccessOk(g)
    /\ ~last_analysis.should_continue

\* C10: error_rate_ratio is the canary mean divided by max(stable mean,
\* 0.001): its denominator is never zero, it is 0.001 when the stable mean
\* is below 0.001 (0 included) and the stable mean otherwise.
C10_RatioDenominator ==
    AnalyzerRan =>
        LET g == Windows
        IN  HasData(g) =>
                LET r == last_analysis.analysis.comparison.error_rate_ratio
                IN  /\ r[2] # 0
                    /\ IF g.s.err < EPSILON * g.s.n
                       THEN r[1] * (g.c.n * EPSILON) = r[2] * g.c.err
                       ELSE r[1] * (g.c.n * g.s.err) = r[2] * (g.c.err * g.s.n)

\* a stable window whose mean error rate is exactly 0
C10_Witness ==
    /\ AnalyzerRan
    /\ LET g == Windows
       IN  HasData(g) /\ g.s.err = 0

--------------------------------------------------------------------------
(* Properties of interruption, discovery, configuration and reporting    *)
(* (checked under Spec).                                                  *)

\* C11: a KeyboardInterrupt delivered at any point of a run ends the run at
\* once: from the delivery on the run is over, ended by that interrupt (no
\* further tick, no wait), and it never reports success (no True, no
\* exit status 0).
C11_InterruptEndsRun ==
    interrupted =>
        /\ pc = "done"
        /\ Interrupted
        /\ returned # "True"
        /\ exit_code # 0

\* C12: a cancelled run is reported as an outcome of its own: its return
\* value and its exit status differ from those of a ROLLBACK run (False, 1)
\* and from those of a PROMOTE run (True, 0).
C12_CancelDistinct ==
    (pc = "done" /\ Interrupted) =>
        /\ returned \notin {BoolStr(TRUE), BoolStr(FALSE)}
        /\ exit_code \notin {ExitCode(TRUE), ExitCode(FALSE)}

\* C13: whatever the discovery probe did (raised, timed out, answered a
\* status other than 200), the canary address is set - to the main address
\* on a failure - before the first fetch and during every fetch after it.
C13_CanaryAddressSet ==
    (pc \in {"fetch_canary", "fetch_stable"} \/ fetches > 0) =>
        canary_service_url \in URLS

KindSet(reason) == {reason[i].kind : i \in 1..Len(reason)}

\* the fallback of lines 56-59 was taken: only it stores the main address
Degraded == canary_service_url = MAIN_URL

\* C14: once discovery fell back to the main address, every analysis made
\* afterwards - the interim ones of the history and the last one - carries
\* a degraded-mode marker among its reasons.
C14_DegradedMarked ==
    Degraded =>
        /\ analyses > 0 => "degraded_mode" \in KindSet(last_analysis.reason)
        /\ \A i \in 1..Len(decision_history) :
              "degraded_mode" \in KindSet(decision_history[i].reason)

\* rates within [0, 1], latency threshold and duration positive
ValidConfig ==
    /\ error_threshold \in 0..One
    /\ success_threshold \in 0..One
    /\ latency_threshold > 0
    /\ duration > 0

\* C15: a configuration with a rate outside [0, 1] or a non-positive
\* latency threshold or duration is rejected at construction: its run
\* never starts - no discovery, no tick, no fetch, no analysis.
C15_InvalidConfigNeverStarts ==
    ~ValidConfig =>
        /\ pc \in {"start", "done"}
        /\ canary_service_url = NONE_URL
        /\ ticks = 0
        /\ fetches = 0
        /\ analyses = 0

\* C16: within a tick no sample is appended before both fetches are over:
\* while the stable fetch of a tick is still to be made, the canary store
\* holds no sample of this tick.
C16_NoPartialCommit ==
    pc = "fetch_stable" =>
        \A i \in 1..Len(canary_metrics) : canary_metrics[i].timestamp # now

\* C17: every run that is over - by an early ROLLBACK, by expiry or by
\* cancellation - has handed over a report, and the report holds the
\* history of all the analyses recorded in the run.
C17_EveryRunHandsRecord ==
    pc = "done" =>
        /\ report.written
        /\ report.decision_history = decision_history

\* the run ended in PROMOTE: final analysis at expiry with verdict continue
Promote == ended_by = "expiry" /\ last_analysis.should_continue

\* C18: the exit status of a run that is over is 0 iff the run ended in
\* PROMOTE; a run that ended in ROLLBACK (interim or final), on missing
\* data or by an interrupt has a non-zero exit status.
C18_ExitZeroIffPromote ==
    pc = "done" =>
        /\ exit_code = 0 <=> Promote
        /\ ended_by \in {"rollback", "interrupt", "uncaught_interrupt"} =>
              exit_code # 0
        /\ (ended_by = "expiry" /\ ~last_analysis.should_continue) =>
              exit_code # 0
        /\ (~Interrupted /\ last_analysis.analysis.empty) => exit_code # 0

\* a promoted run, with exit status 0
C18_Witness ==
    /\ pc = "done"
    /\ Promote
    /\ exit_code = 0
    /\ Len(decision_history) > 0

\* the analyzer called at time t on the monitor's stores and thresholds
AnalyzeAt(t) ==
    analyze_canary_performance(canary_metrics, stable_metrics, t,
                               error_threshold, latency_threshold,
                               success_threshold)

\* later instants at which the unchanged stores are analysed once more
CallTimes == {now + CHECK_INTERVAL, now + WINDOW - 2 * CHECK_INTERVAL,
              now + WINDOW}

\* the trailing window at time t selects the samples it selects now
SameWindows(t) ==
    /\ Recent(canary_metrics, t) = Recent(canary_metrics, now)
    /\ Recent(stable_metrics, t) = Recent(stable_metrics, now)

--------------------------------------------------------------------------
(* The schedule of the interim analyses (checked under Spec) *)

\* C20 (as stated): the analyzer runs once every 5 ticks: the first interim
\* analysis is made in the 5th tick, when exactly 5 fetch rounds have been
\* issued, each later one 5 ticks after the previous one, and none in any
\* other tick; each is appended to the history.
C20_FirstAtFifthTick ==
    /\ pc = "check" =>
          /\ fetches = 2 * ticks
          /\ AnalysisDue(checks_completed) <=> ticks % ANALYZE_EVERY = 0
    /\ pc = "sleep" => Len(decision_history) = ticks \div ANALYZE_EVERY

\* C20 (amended): the analyzer runs once every 5 ticks from the 6th tick
\* on: the first interim analysis is made in the 6th tick, when 5 ticks
\* are completed and 6 fetch rounds have been issued, each later one 5
\* ticks after the previous one (11th, 16th, ...), and none in any other
\* tick; each is appended to the history.
C20_FirstAtSixthTick ==
    /\ pc = "check" =>
          /\ fetches = 2 * ticks
          /\ checks_completed = ticks - 1
          /\ AnalysisDue(checks_completed) <=>
                (ticks > 1 /\ ticks % ANALYZE_EVERY = 1)
    /\ pc = "sleep" =>
          /\ Len(decision_history) = (ticks - 1) \div ANALYZE_EVERY
          /\ analyses = Len(decision_history)

\* after the 11th tick of a run the history holds two analyses
C20_Witness ==
    /\ pc = "sleep"
    /\ ticks = 11
    /\ Len(decision_history) = 2
    /\ decision_history[1].timestamp = 5 * CHECK_INTERVAL
    /\ decision_history[2].timestamp = 10 * CHECK_INTERVAL

--------------------------------------------------------------------------
(* The window and the stores *)

\* the samples of a store stamped at or after t - 5 min, in stored order
InclusiveWindow(metrics, t) ==
    SelectSeq(metrics, LAMBDA m : m.timestamp >= t - WINDOW)

\* C21: the window of an analysis made at time now is exactly the stored
\* samples with timestamp >= now - 5 min, the boundary included, in stored
\* order: the analysis finds data iff both such windows are non-empty, and
\* its aggregates are the means over them.
C21_WindowInclusive ==
    AnalyzerRan =>
        LET wc == InclusiveWindow(canary_metrics, now)
            ws == InclusiveWindow(stable_metrics, now)
        IN  /\ Recent(canary_metrics, now) = wc
            /\ Recent(stable_metrics, now) = ws
            /\ last_analysis.analysis.empty <=> (wc = << >> \/ ws = << >>)
            /\ ~last_analysis.analysis.empty =>
                  /\ last_analysis.analysis.canary_metrics = Averages(wc)
                  /\ last_analysis.analysis.stable_metrics = Averages(ws)

\* a store is its earlier value, or that value with one sample at its end
GrowsAtEnd(old, new) ==
    \/ new = old
    \/ /\ Len(new) = Len(old) + 1
       /\ SubSeq(new, 1, Len(old)) = old

TimeOrdered(metrics) ==
    \A i \in 1..(Len(metrics) - 1) :
        metrics[i].timestamp <= metrics[i + 1].timestamp

\* at most one sample of a store carries the time of a given tick
OnePerTick(metrics) ==
    \A i, j \in 1..Len(metrics) :
        metrics[i].timestamp = metrics[j].timestamp => i = j

StoresOrdered ==
    /\ TimeOrdered(canary_metrics) /\ TimeOrdered(stable_metrics)
    /\ OnePerTick(canary_metrics) /\ OnePerTick(stable_metrics)
    /\ Len(canary_metrics) <= ticks /\ Len(stable_metrics) <= ticks

StoresAppendOnly ==
    /\ GrowsAtEnd(canary_metrics, canary_metrics')
    /\ GrowsAtEnd(stable_metrics, stable_metrics')

\* C22: the two stores are append-only and time-ordered: every step of a
\* run leaves each store as it is or adds one sample at its end (no stored
\* sample is changed, removed or moved), a store holds at most one sample
\* per tick, and its timestamps never decrease.
C22_StoresAppendOnly == [](StoresOrdered) /\ [][StoresAppendOnly]_vars

\* both stores hold several samples and a stable fetch has failed
C22_Witness ==
    /\ Len(canary_metrics) >= 3
    /\ Len(stable_metrics) >= 2
    /\ Len(stable_metrics) < Len(canary_metrics)
    /\ pc = "sleep"

\* C23: a call of analyze_canary_performance changes neither store, nor
\* the decision history, nor a threshold, nor the canary address.
C23_AnalyzerPure ==
    [][analyses' # analyses =>
          UNCHANGED <<canary_metrics, stable_metrics, decision_history,
                      error_threshold, latency_threshold, success_threshold,
                      duration, canary_service_url>>]_vars

\* a call returned an analysis of stores that hold a sample outside the
\* window besides the ones inside it
C23_Witness ==
    /\ AnalyzerRan
    /\ ~last_analysis.analysis.empty
    /\ Len(Recent(canary_metrics, now)) < Len(canary_metrics)
    /\ Len(Recent(stable_metrics, now)) < Len(stable_metrics)

--------------------------------------------------------------------------
(* Termination and the shape of the history (checked under Spec) *)

CeilDiv(a, b) == (a + b - 1) \div b

\* ceil(duration / check_interval)
MaxTicks == CeilDiv(duration, CHECK_INTERVAL)

\* ticks the loop can still start from the current time
RemainingTicks ==
    IF now < end_time THEN CeilDiv(end_time - now, CHECK_INTERVAL) ELSE 0

\* a bound on the number of steps the monitor can still take
Rank ==
    CASE pc = "start"        -> 6 * MaxTicks + 3
      [] pc = "loop"         -> 6 * RemainingTicks + 2
      [] pc = "fetch_canary" -> 6 * RemainingTicks + 1
      [] pc = "fetch_stable" -> 6 * RemainingTicks
      [] pc = "check"        -> 6 * RemainingTicks - 1
      [] pc = "sleep"        -> 6 * RemainingTicks - 2
      [] pc = "final"        -> 1
      [] OTHER               -> 0

TickBound ==
    /\ ticks <= MaxTicks
    /\ pc \in InTry => now < end_time
    /\ pc = "final" => now >= end_time
    /\ Rank >= 0
    /\ (pc = "done" /\ ~Interrupted /\ ended_by # "rollback") =>
          /\ ended_by = "expiry"
          /\ analyses = Len(decision_history) + 1
          /\ returned \in {"True", "False"}

RollbackEntries ==
    {i \in 1..Len(decision_history) : decision_history[i].decision = "rollback"}

\* C25: the history holds at most one 'rollback' entry; if it holds one,
\* that entry is the last and the run is over with a result that is not a
\* promotion; the history of a promoted run holds 'continue' entries only.
C25_AtMostOneRollback ==
    /\ Cardinality(RollbackEntries) <= 1
    /\ RollbackEntries # {} =>
          /\ RollbackEntries = {Len(decision_history)}
          /\ pc = "done"
          /\ returned # "True"
          /\ exit_code # 0
    /\ Promote =>
          \A i \in 1..Len(decision_history) :
              decision_history[i].decision = "continue"

\* a rollback entry that follows a continue entry
C25_Witness ==
    /\ Len(decision_history) = 2
    /\ decision_history[1].decision = "continue"
    /\ decision_history[2].decision = "rollback"

--------------------------------------------------------------------------
(* The success-rate shortfall (checked under SpecAnalyzer) *)

\* success_rate_min <= 1 - error_rate_max
SuccessImplied == success_threshold <= One - error_threshold

--------------------------------------------------------------------------
(* The simulated values under default thresholds (checked under Spec) *)

DefaultConfig ==
    <<error_threshold, latency_threshold, success_threshold>> = DefaultThresholds

AllProbesSucceed == flips = 0 /\ \A u \in URLS : url_up[u]

AllSamples(metrics, err, lat) ==
    \A i \in 1..Len(metrics) :
        metrics[i].error_rate = err /\ metrics[i].p95_latency = lat

\* the error-rate ratio of the last analysis is n / 1000
RatioIs(n) ==
    LET r == last_analysis.analysis.comparison.error_rate_ratio
    IN  r[1] * 1000 = n * r[2]

AllDecisions(d) ==
    \A i \in 1..Len(decision_history) : decision_history[i].decision = d

\* C27: with default thresholds and every health probe answering, discovery
\* determines the run.  Canary found at its own address: canary samples
\* (0.005, 450), stable samples (0.0016, 380), ratio 3.125, every analysis
\* ROLLBACK, never a promotion.  Fallback to the main address: canary
\* samples (0.005, 450), stable samples (0.004, 427.5), ratio 1.25, every
\* analysis CONTINUE, and the run that is not interrupted ends in PROMOTE.
C27_OutcomeByDiscovery ==
    (DefaultConfig /\ AllProbesSucceed) =>
        /\ canary_service_url = TEST_URL =>
              /\ AllSamples(canary_metrics, 50, 4500)
              /\ AllSamples(stable_metrics, 16, 3800)
              /\ AllDecisions("rollback")
              /\ analyses > 0 => ~last_analysis.should_continue
              /\ (analyses > 0 /\ ~last_analysis.analysis.empty) => RatioIs(3125)
              /\ returned # "True"
        /\ canary_service_url = MAIN_URL =>
              /\ AllSamples(canary_metrics, 50, 4500)
              /\ AllSamples(stable_metrics, 40, 4275)
              /\ AllDecisions("continue")
              /\ analyses > 0 => last_analysis.should_continue
              /\ (analyses > 0 /\ ~last_analysis.analysis.empty) => RatioIs(1250)
              /\ (pc = "done" /\ ~Interrupted) => Promote

--------------------------------------------------------------------------
(* generate-deployment-report.py: health score, quality gates, approval *)

Min(a, b) == IF a <= b THEN a ELSE b

CoverageScore_unscaled(coverage) == Min(coverage \div 100, COVERAGE_CAP)

\* line 62: min(coverage * 100, 100), in units of 0.1
CoverageScore(coverage) == Min(coverage, COVERAGE_CAP)

\* lines 65-69: the weighted sum, in units of 0.01
OverallScore(quality, security, coverage) ==
    10 * WEIGHT_QUALITY * quality + 10 * WEIGHT_SECURITY * security
        + WEIGHT_COVERAGE * CoverageScore(coverage)

\* lines 72-86 on a score in units of 0.01
StatusOf(score) ==
    IF score >= 9000 THEN "EXCELLENT"
    ELSE IF score >= 8000 THEN "GOOD"
    ELSE IF score >= 7000 THEN "ACCEPTABLE"
    ELSE IF score >= 6000 THEN "POOR"
    ELSE "CRITICAL"

\* The test is made on the float sum: a sum that is exactly 60, 70, 80 or
\* 90 may come out one rounding error below it.
StatusCandidates(score) ==
    IF score % 1000 = 0 THEN {StatusOf(score), StatusOf(score - 1)}
    ELSE {StatusOf(score)}

GradeOf(status) ==
    CASE status = "EXCELLENT"  -> "A+"
      [] status = "GOOD"       -> "A"
      [] status = "ACCEPTABLE" -> "B"
      [] status = "POOR"       -> "C"
      [] OTHER                 -> "D"

\* calculate_deployment_health (lines 52-98): the dicts it may return;
\* round(x, 1) gives tenths, the contributions are kept as the sets Shown
\* gives
calculate_deployment_health(quality, security, coverage) ==
    LET overall_score == OverallScore(quality, security, coverage)
    IN  {[computed      |-> TRUE,
          overall_score |-> v,
          status        |-> st,
          grade         |-> GradeOf(st),
          breakdown     |->
              [quality_contribution  |-> Shown(<<WEIGHT_QUALITY * quality, 1>>),
               security_contribution |-> Shown(<<WEIGHT_SECURITY * security, 1>>),
               coverage_contribution |->
                   Shown(<<WEIGHT_COVERAGE * CoverageScore(coverage), 10>>)]] :
            v \in Shown(<<overall_score, 10>>),
            st \in StatusCandidates(overall_score)}

Gate(threshold, actual) ==
    [threshold |-> threshold, actual |-> actual, passed |-> actual >= threshold,
     status |-> IF actual >= threshold THEN "PASS" ELSE "FAIL"]

\* evaluate_quality_gates (lines 130-160)
evaluate_quality_gates(quality, security, coverage) ==
    LET gates == [code_quality  |-> Gate(QUALITY_GATE, quality),
                  security_scan |-> Gate(SECURITY_GATE, security),
                  test_coverage |-> Gate(COVERAGE_GATE, coverage)]
        passed == {g \in DOMAIN gates : gates[g].passed}
    IN  [evaluated      |-> TRUE,
         gates          |-> gates,
         overall_status |-> IF passed = DOMAIN gates THEN "PASS" ELSE "FAIL",
         passed_count   |-> Cardinality(passed),
         total_count    |-> Cardinality(DOMAIN gates)]

\* the --quality-score, --security-score and --test-coverage arguments
\* (type=int, int, float; lines 423-428), no range check
QualityScores == {0, 100, 130} \cup (66..74)
SecurityScores == {0, 100, 130} \cup (76..84)
TestCoverages == {0, 500, 1000, 1500} \cup (796..804)

monitorVars ==
    <<cfgVars, canary_service_url, storeVars, decision_history, end_time,
      checks_completed, pc, last_analysis, returned, exit_code, report,
      envVars, obsVars>>

\* main after parse_args (line 435); the monitor is a separate program,
\* not started
InitReport ==
    /\ quality_score \in QualityScores
    /\ security_score \in SecurityScores
    /\ test_coverage \in TestCoverages
    /\ deployment_health = NoHealth
    /\ quality_gates = NoGates
    /\ gpc = "parsed"
    /\ gen_exit = -1
    /\ duration = 600
    /\ error_threshold = DEFAULT_ERROR_THRESHOLD
    /\ latency_threshold = DEFAULT_LATENCY_THRESHOLD
    /\ success_threshold = DEFAULT_SUCCESS_THRESHOLD
    /\ canary_service_url = NONE_URL
    /\ canary_metrics = << >>
    /\ stable_metrics = << >>
    /\ decision_history = << >>
    /\ end_time = 0
    /\ checks_completed = 0
    /\ pc = "not_started"
    /\ last_analysis = NoResult
    /\ returned = "none"
    /\ exit_code = -1
    /\ report = NoReport
    /\ now = 0
    /\ url_up = [u \in URLS |-> TRUE]
    /\ flips = 0
    /\ ticks = 0
    /\ fetches = 0
    /\ analyses = 0
    /\ ended_by = "running"
    /\ interrupted = FALSE

\* generate_report (lines 17-50): the two parts of the report main reads
GenerateDeploymentReport ==
    /\ gpc = "parsed"
    /\ deployment_health' \in
           calculate_deployment_health(quality_score, security_score, test_coverage)
    /\ quality_gates' =
           evaluate_quality_gates(quality_score, security_score, test_coverage)
    /\ gpc' = "reported"
    /\ UNCHANGED <<monitorVars, quality_score, security_score, test_coverage,
                   gen_exit>>

\* lines 445-459: the report files are written
SaveReports ==
    /\ gpc = "reported"
    /\ gpc' = "saved"
    /\ UNCHANGED <<monitorVars, quality_score, security_score, test_coverage,
                   deployment_health, quality_gates, gen_exit>>

\* lines 324 and 456: open() raises (directory not writable, disk full);
\* nothing catches it and the interpreter ends the process with status 1
SaveFails ==
    /\ gpc = "reported"
    /\ gpc' = "failed"
    /\ gen_exit' = 1
    /\ UNCHANGED <<monitorVars, quality_score, security_score, test_coverage,
                   deployment_health, quality_gates>>

\* line 469
Approved(health, gates) ==
    health.overall_score >= APPROVAL_SCORE /\ gates.overall_status = "PASS"

\* lines 461-474
Approve ==
    /\ gpc = "saved"
    /\ gen_exit' = IF Approved(deployment_health, quality_gates) THEN 0 ELSE 1
    /\ gpc' = "exited"
    /\ UNCHANGED <<monitorVars, quality_score, security_score, test_coverage,
                   deployment_health, quality_gates>>

NextReport == GenerateDeploymentReport \/ SaveReports \/ SaveFails \/ Approve

SpecReport == InitReport /\ [][NextReport]_vars

\* the three quality gates, tested on the arguments of main
AllGatesPass ==
    /\ quality_score >= QUALITY_GATE
    /\ security_score >= SECURITY_GATE
    /\ test_coverage >= COVERAGE_GATE

\* passing gates bound the score: 0.3*70 + 0.4*80 + 0.3*80 = 77
ScoreBound ==
    (deployment_health.computed /\ AllGatesPass) =>
        /\ OverallScore(quality_score, security_score, test_coverage) >= 7700
        /\ deployment_health.overall_score >= 770
        /\ quality_gates.overall_status = "PASS"

\* C28 (as stated): when the three gates pass (quality >= 70, security >=
\* 80, coverage >= 0.8) the health score is at least 77; hence the process
\* exits 0 iff the three gates pass, whatever the health-score test says.
C28_ExitIffGatesPass ==
    /\ ScoreBound
    /\ gpc \in {"exited", "failed"} => (gen_exit = 0 <=> AllGatesPass)

\* C28 (amended): when the three gates pass the health score is at least
\* 77; hence a process that reaches the approval decision exits 0 iff the
\* three gates pass, the health-score test never changing the status; a
\* process whose report file cannot be written ends before the decision
\* with a non-zero status, also when the three gates pass.
C28_DecisionIffGatesPass ==
    /\ ScoreBound
    /\ gpc = "exited" =>
          /\ gen_exit = 0 <=> AllGatesPass
          /\ AllGatesPass => deployment_health.overall_score >= APPROVAL_SCORE
          /\ gen_exit \in {0, 1}
    /\ gpc = "failed" => gen_exit # 0

\* approval at the lowest scores that pass the gates: 70, 80, 0.8 -> 77.0
C28_Witness ==
    /\ gpc = "exited"
    /\ quality_score = QUALITY_GATE
    /\ security_score = SECURITY_GATE
    /\ test_coverage = COVERAGE_GATE
    /\ deployment_health.overall_score = 770
    /\ gen_exit = 0

==========================================================================
